---- MODULE Spec2Model ----
(***************************************************************************)
(* Game of Life in three dimensions (src/src/main.rs): the lattice         *)
(* (Grid), the 26-neighbour count (live_neighbors), the per-cell rule and  *)
(* the in-place tick (print_position_system), with the visibility flags    *)
(* that setup_game creates and the tick maintains.                         *)
(***************************************************************************)
EXTENDS Integers, Sequences, FiniteSets

VARIABLES
    pc,        \* "new" | "startup" | "idle" | "tick" | "panicked"; "call" | "returned"
    width,     \* arguments of Grid::new
    height,
    depth,
    cells,     \* Grid.cells : Position -> CellState
    vis,       \* Visibility.is_visible of the entity spawned with each Position
    todo,      \* entities query.iter_mut() has not yielded yet in this tick
    scan,      \* iteration order of the query: <<>> (unconstrained) or hash coefficients
    position,  \* loop variable `position` of the last iteration (NoPos before any)
    alive,     \* local `alive` of the last iteration / last live_neighbors result
    was,       \* cell.state matched on in the last iteration
    pre        \* the lattice as it was when the current / last tick began

vars == <<pc, width, height, depth, cells, vis, todo, scan, position, alive, was, pre>>

----------------------------------------------------------------------------
(* Bounds of the model *)

MaxDim == 2        \* Spec, SpecNew: lattice dimensions are drawn from 1..MaxDim
MaxProbeDim == 3   \* SpecNeighbors: lattice dimensions are drawn from 1..MaxProbeDim
MaxCoef == 10      \* SpecCube: largest coefficient of a hash order

----------------------------------------------------------------------------
(* Program constants and types *)

\* the range of the i32 components of Position
I32_MAX == 2147483647
I32_MIN == -I32_MAX - 1

EB == 4
FB == 5
EH == 5
FH == 5

CellState == {"Alive", "Dead"}

NoPos == <<>>
None == <<>>
Some(x) == <<x>>

Position_new(x, y, z) == <<x, y, z>>

Cell_is_alive(state) == state = "Alive"

EmptyGrid == [p \in {} |-> "Dead"]

----------------------------------------------------------------------------
(* Grid *)

\* Grid::new with an off-by-one inclusive range on x
GridKeys_inclusive(w, h, d) ==
    {Position_new(x, y, z) : x \in 0..w, y \in 0..(h - 1), z \in 0..(d - 1)}

\* the keys Grid::new inserts: for x in 0..width, y in 0..height, z in 0..depth
GridKeys(w, h, d) ==
    {Position_new(x, y, z) : x \in 0..(w - 1), y \in 0..(h - 1), z \in 0..(d - 1)}

get_cell(grid, key) ==
    IF key \in DOMAIN grid THEN Some(grid[key]) ELSE None

get_cell_mut(grid, key) ==
    IF key \in DOMAIN grid THEN Some(grid[key]) ELSE None

\* Grid::new: every key of the loops gets a cell whose state is rand::random()
Grid_new ==
    /\ pc = "new"
    /\ cells' \in [GridKeys(width, height, depth) -> CellState]
    /\ pc' = "startup"
    /\ UNCHANGED <<width, height, depth, vis, todo, scan, position, alive, was, pre>>

----------------------------------------------------------------------------
(* live_neighbors *)

\* the (x, y, z) of the three nested loops over -1..=1
Offsets == (-1..1) \X (-1..1) \X (-1..1)

\* does the i32 addition a + b overflow
add_overflows(a, b) ==
    \/ b > 0 /\ a > I32_MAX - b
    \/ b < 0 /\ a < I32_MIN - b

\* a + b in i32 when overflow is not checked (two's complement wrapping)
wrapping_add(a, b) ==
    IF b > 0 /\ a > I32_MAX - b THEN I32_MIN + (a - (I32_MAX - b) - 1)
    ELSE IF b < 0 /\ a < I32_MIN - b THEN I32_MAX - ((I32_MIN - b) - a - 1)
    ELSE a + b

\* the key of the loop body: Position::new(position.x + x, position.y + y, position.z + z)
neighbor_key(p, d) ==
    Position_new(wrapping_add(p[1], d[1]), wrapping_add(p[2], d[2]), wrapping_add(p[3], d[3]))

\* does one of the additions of the loops overflow (every x, y and z is added
\* in some iteration; the skipped iteration adds only zeros)
key_overflows(p) ==
    \E i \in -1..1 :
        add_overflows(p[1], i) \/ add_overflows(p[2], i) \/ add_overflows(p[3], i)

\* what the additions of a call can do: an overflowing addition panics where
\* overflow is checked (debug profile) and wraps where it is not (release)
add_outcomes(p) == IF key_overflows(p) THEN {"panic", "wrap"} ELSE {"value"}

\* the loop body without the `continue` for the centre
counts_centre(grid, p, d) ==
    LET cell == get_cell(grid, neighbor_key(p, d))
    IN  cell # None /\ Cell_is_alive(cell[1])

\* does the loop body add 1 to `alives` at offset d
counts(grid, p, d) ==
    /\ ~(d[1] = 0 /\ d[2] = 0 /\ d[3] = 0)
    /\ LET cell == get_cell(grid, neighbor_key(p, d))
       IN  cell # None /\ Cell_is_alive(cell[1])

\* `alives` when the loops end (no addition having panicked): the number of
\* iterations that added 1
live_neighbors(grid, p) == Cardinality({d \in Offsets : counts(grid, p, d)})

----------------------------------------------------------------------------
(* The rule of print_position_system *)

\* the rule with the lower birth threshold dropped
next_state_no_lower(state, n) ==
    IF state = "Alive"
    THEN (IF EB <= n /\ n <= EH THEN "Alive" ELSE "Dead")
    ELSE (IF n <= FH THEN "Alive" ELSE "Dead")

\* the rule with a strict lower survival threshold
next_state_strict(state, n) ==
    IF state = "Alive"
    THEN (IF EB < n /\ n <= EH THEN "Alive" ELSE "Dead")
    ELSE (IF FB <= n /\ n <= FH THEN "Alive" ELSE "Dead")

\* match cell.state { Alive => ..., Dead => ... }
next_state(state, n) ==
    IF state = "Alive"
    THEN (IF EB <= n /\ n <= EH THEN "Alive" ELSE "Dead")
    ELSE (IF FB <= n /\ n <= FH THEN "Alive" ELSE "Dead")

\* the lattice after the loop body has run on position p with `alive` = n
visit_cell(grid, p, n) == [grid EXCEPT ![p] = next_state(grid[p], n)]

----------------------------------------------------------------------------
(* setup_game: one entity per (position, cell) of grid.cells *)

setup_game_all_visible ==
    /\ pc = "startup"
    /\ vis' = [p \in DOMAIN cells |-> TRUE]
    /\ pc' = "idle"
    /\ UNCHANGED <<width, height, depth, cells, todo, scan, position, alive, was, pre>>

setup_game_by_ranges ==
    /\ pc = "startup"
    /\ vis' = [p \in GridKeys_inclusive(width, height, depth) |->
                 IF p \in DOMAIN cells THEN cells[p] = "Alive" ELSE FALSE]
    /\ pc' = "idle"
    /\ UNCHANGED <<width, height, depth, cells, todo, scan, position, alive, was, pre>>

setup_game ==
    /\ pc = "startup"
    /\ vis' = [p \in DOMAIN cells |-> cells[p] = "Alive"]
    /\ pc' = "idle"
    /\ UNCHANGED <<width, height, depth, cells, todo, scan, position, alive, was, pre>>

----------------------------------------------------------------------------
(* print_position_system: the tick *)

\* bucket of a position under the hash order `scan`
Bucket(s, p) == (s[1] * p[1] + s[2] * p[2] + s[3] * p[3]) % (width * height * depth)

\* may the query yield p next, the entities of `rest` being still to come
yields_next(s, p, rest) ==
    IF s = <<>> THEN TRUE
    ELSE \A q \in rest : Bucket(s, p) <= Bucket(s, q)

\* the system is run (FixedTimestep): the query starts to iterate
print_position_system_begin ==
    /\ pc = "idle"
    /\ todo' = DOMAIN vis
    /\ pre' = cells
    /\ position' = NoPos
    /\ alive' = 0
    /\ was' = "Dead"
    /\ pc' = "tick"
    /\ UNCHANGED <<width, height, depth, cells, vis, scan>>

\* one iteration of the for loop
print_position_system_visit ==
    /\ pc = "tick"
    /\ \E p \in todo : \E o \in add_outcomes(p) :
        /\ yields_next(scan, p, todo)
        /\ todo' = todo \ {p}
        /\ position' = p
        /\ IF o = "panic"
           THEN /\ pc' = "panicked"
                /\ UNCHANGED <<cells, vis, alive, was>>
           ELSE /\ alive' = live_neighbors(cells, p)
                /\ IF get_cell_mut(cells, p) = None
                   THEN /\ pc' = "panicked"
                        /\ UNCHANGED <<cells, vis, was>>
                   ELSE /\ was' = cells[p]
                        /\ cells' = visit_cell(cells, p, alive')
                        /\ vis' = [vis EXCEPT ![p] = Cell_is_alive(cells'[p])]
                        /\ pc' = "tick"
    /\ UNCHANGED <<width, height, depth, scan, pre>>

\* the query is exhausted: the system returns
print_position_system_end ==
    /\ pc = "tick"
    /\ todo = {}
    /\ pc' = "idle"
    /\ UNCHANGED <<width, height, depth, cells, vis, todo, scan, position, alive, was, pre>>

print_position_system ==
    \/ print_position_system_begin
    \/ print_position_system_visit
    \/ print_position_system_end

----------------------------------------------------------------------------
(* Specifications *)

Dims == 1..MaxDim

Init ==
    /\ pc = "new"
    /\ width \in Dims
    /\ height \in Dims
    /\ depth \in Dims
    /\ cells = EmptyGrid
    /\ vis = EmptyGrid
    /\ todo = {}
    /\ scan = <<>>
    /\ position = NoPos
    /\ alive = 0
    /\ was = "Dead"
    /\ pre = EmptyGrid

Next ==
    \/ Grid_new
    \/ setup_game
    \/ print_position_system

Spec == Init /\ [][Next]_vars

----------------------------------------------------------------------------
(* SpecNew: Grid::new alone, on any dimensions, positive or not *)

Init_new ==
    /\ pc = "new"
    /\ width \in (-MaxDim)..MaxDim
    /\ height \in (-MaxDim)..MaxDim
    /\ depth \in (-MaxDim)..MaxDim
    /\ cells = EmptyGrid
    /\ vis = EmptyGrid
    /\ todo = {}
    /\ scan = <<>>
    /\ position = NoPos
    /\ alive = 0
    /\ was = "Dead"
    /\ pre = EmptyGrid

Next_new == Grid_new

SpecNew == Init_new /\ [][Next_new]_vars

----------------------------------------------------------------------------
(* SpecCube: the 3x3x3 lattice Grid::new returns when every rand::random() *)
(* is true, ticked with the query iterating in a hash order               *)

\* the hash orders that give every key of the lattice a bucket of its own
HashOrders(keys, m) ==
    {s \in (0..MaxCoef) \X (0..MaxCoef) \X (0..MaxCoef) :
        \A p, q \in keys :
            p # q => (s[1] * p[1] + s[2] * p[2] + s[3] * p[3]) % m
                     # (s[1] * q[1] + s[2] * q[2] + s[3] * q[3]) % m}

Init_cube ==
    /\ pc = "startup"
    /\ width = 3
    /\ height = 3
    /\ depth = 3
    /\ cells = [p \in GridKeys(3, 3, 3) |-> "Alive"]
    /\ vis = EmptyGrid
    /\ todo = {}
    /\ scan \in HashOrders(GridKeys(3, 3, 3), 27)
    /\ position = NoPos
    /\ alive = 0
    /\ was = "Dead"
    /\ pre = EmptyGrid

Next_cube ==
    \/ setup_game
    \/ print_position_system

SpecCube == Init_cube /\ [][Next_cube]_vars

----------------------------------------------------------------------------
(* SpecNeighbors: live_neighbors called on a lattice, at a coordinate in   *)
(* or next to the box or at the ends of the i32 range                      *)

\* the values of one component of the coordinate of a call, `dim` being the
\* lattice's dimension on that axis
Components(dim) == (-1..dim) \cup {I32_MIN, I32_MIN + 1, I32_MAX - 1, I32_MAX}

\* the lattices on `keys` in which at most one cell differs from all the others
NearUniform(keys) ==
    {[p \in keys |-> IF p \in t THEN u[1] ELSE u[2]] :
        t \in {{}} \cup {{x} : x \in keys},
        u \in {<<"Alive", "Dead">>, <<"Dead", "Alive">>}}

Init_probe ==
    /\ pc = "call"
    /\ width \in 1..MaxProbeDim
    /\ height \in 1..MaxProbeDim
    /\ depth \in 1..MaxProbeDim
    /\ cells \in NearUniform(GridKeys(width, height, depth))
    /\ vis = EmptyGrid
    /\ todo = {}
    /\ scan = <<>>
    /\ position = NoPos
    /\ alive = 0
    /\ was = "Dead"
    /\ pre = cells

\* a call live_neighbors(&grid, &c)
live_neighbors_call ==
    /\ pc = "call"
    /\ \E c \in Components(width) \X Components(height) \X Components(depth) :
        \E o \in add_outcomes(c) :
            /\ position' = c
            /\ IF o = "panic"
               THEN pc' = "panicked" /\ alive' = alive
               ELSE pc' = "returned" /\ alive' = live_neighbors(cells, c)
    /\ UNCHANGED <<width, height, depth, cells, vis, todo, scan, was, pre>>

Next_probe == live_neighbors_call

SpecNeighbors == Init_probe /\ [][Next_probe]_vars

----------------------------------------------------------------------------
(* Properties *)

\* a tick has run to completion; `pre` is the lattice it started from
TickCompleted == pc = "idle" /\ position # NoPos

InBox(c) ==
    /\ 0 <= c[1] /\ c[1] < width
    /\ 0 <= c[2] /\ c[2] < height
    /\ 0 <= c[3] /\ c[3] < depth

\* the box and the coordinates one step outside it
Around == (-1..width) \X (-1..height) \X (-1..depth)

\* q is at Chebyshev distance 1 from p: another coordinate, at most one step
\* away on every axis (q is a key of the lattice, so q[i] - 1 and q[i] + 1 are
\* within the integers whatever p is)
IsNeighbour(p, q) ==
    /\ p # q
    /\ \A i \in 1..3 : q[i] - 1 <= p[i] /\ p[i] <= q[i] + 1

IsCorner(c) ==
    /\ c[1] \in {0, width - 1}
    /\ c[2] \in {0, height - 1}
    /\ c[3] \in {0, depth - 1}

\* the two-phase tick: every next state computed from the unchanged lattice
reference_tick(grid) ==
    [p \in DOMAIN grid |-> next_state(grid[p], live_neighbors(grid, p))]

\* the keys of a w x h x d lattice in the order Grid::new inserts them
grid_order(w, h, d) ==
    [i \in 1..(w * h * d) |->
        Position_new((i - 1) \div (h * d), ((i - 1) \div d) % h, (i - 1) % d)]

\* the tick run on `grid` with the query yielding order[i], order[i+1], ...
RECURSIVE run_tick(_, _, _)
run_tick(grid, order, i) ==
    IF i > Len(order) THEN grid
    ELSE run_tick(visit_cell(grid, order[i], live_neighbors(grid, order[i])), order, i + 1)

AllDead == pc # "new" /\ \A p \in DOMAIN cells : cells[p] = "Dead"

\* C1: when a tick has completed, whatever order it visited the cells in, the
\* lattice equals the two-phase reference tick of the lattice the tick began with.
C1_SimultaneousUpdate == TickCompleted => cells = reference_tick(pre)

\* C2: a tick is deterministic: whatever order it visited the cells in, its
\* result is the result of the run that visits them in the lattice's own order,
\* so any two runs from the same lattice agree.
C2_Deterministic ==
    TickCompleted => cells = run_tick(pre, grid_order(width, height, depth), 1)

\* C3: once Grid::new has returned, and after any number of ticks, the lattice
\* has a cell at exactly the coordinates of the box: get_cell is present for
\* every in-box coordinate and absent for every coordinate outside it.
C3_Coverage ==
    pc # "new" =>
        /\ \A c \in DOMAIN cells : InBox(c)
        /\ \A c \in Around : (get_cell(cells, c) # None) <=> InBox(c)

C3_Witness ==
    /\ TickCompleted
    /\ width = 2 /\ height = 2 /\ depth = 2
    /\ get_cell(cells, <<1, 1, 1>>) # None
    /\ get_cell(cells, <<2, 1, 1>>) = None
    /\ get_cell(cells, <<0, -1, 0>>) = None

\* what C4 says a call that has returned has computed: the number of Alive
\* cells at Chebyshev distance 1 from the coordinate, in 0..26, at most 7 at a
\* corner of the box, with the lattice as it was
NeighbourCountRight ==
    /\ alive = Cardinality({q \in DOMAIN cells :
                    IsNeighbour(position, q) /\ cells[q] = "Alive"})
    /\ 0 <= alive /\ alive <= 26
    /\ IsCorner(position) => alive <= 7
    /\ cells = pre

\* no component of the coordinate is i32::MIN or i32::MAX
Interior(c) == \A i \in 1..3 : I32_MIN < c[i] /\ c[i] < I32_MAX

C5_AllDeadStable == [][AllDead => AllDead']_vars

C5_Witness ==
    /\ TickCompleted
    /\ Cardinality(DOMAIN cells) = 8
    /\ \A p \in DOMAIN pre : pre[p] = "Dead"
    /\ AllDead

\* C6: one tick of the 3x3x3 lattice whose 27 cells are Alive leaves the
\* centre cell (1,1,1) Dead, whatever order the tick visited the cells in.
C6_CentreDies ==
    (TickCompleted /\ pre = [p \in GridKeys(3, 3, 3) |-> "Alive"])
        => cells[<<1, 1, 1>>] = "Dead"

\* C7: the tick never panics: every entity the query has still to yield has a
\* cell in the lattice, so get_cell_mut(...).unwrap() succeeds, and the system
\* returns only when the query has yielded every entity.
C7_NoPanic ==
    /\ pc # "panicked"
    /\ pc = "tick" => \A p \in todo : get_cell_mut(cells, p) # None
    /\ pc = "idle" => todo = {}

C7_Witness ==
    /\ TickCompleted
    /\ todo = {}
    /\ Cardinality(DOMAIN vis) = 8
    /\ was = "Alive"

\* C8: Grid::new with a non-positive width, height or depth does not return
\* a lattice: it fails with an error.
C8_RejectsNonPositive ==
    (width <= 0 \/ height <= 0 \/ depth <= 0) => pc # "startup"

\* C9: after setup_game and after every completed tick, the entity of every
\* coordinate of the lattice is visible if and only if its cell is Alive.
C9_VisibleIffAlive ==
    pc = "idle" =>
        /\ DOMAIN vis = DOMAIN cells
        /\ \A p \in DOMAIN cells : vis[p] <=> cells[p] = "Alive"

C9_Witness ==
    /\ TickCompleted
    /\ \E p, q \in DOMAIN cells :
        /\ pre[p] = "Dead" /\ cells[p] = "Alive" /\ vis[p]
        /\ cells[q] = "Dead" /\ ~vis[q]

\* C10: a visit of the tick writes, with n the value live_neighbors returned
\* for the visited cell in that iteration (the local `alive`), Alive iff (the cell is Alive and 4 <= n <= 5)
\* or (the cell is Dead and n = 5), and writes no other cell.
C10_LocalRule ==
    [][(pc = "tick" /\ todo' # todo) =>
        LET p == position'
            n == alive'
        IN  /\ todo' = todo \ {p}
            /\ DOMAIN cells' = DOMAIN cells
            /\ cells'[p] = "Alive" <=>
                   \/ cells[p] = "Alive" /\ 4 <= n /\ n <= 5
                   \/ cells[p] = "Dead" /\ n = 5
            /\ \A q \in DOMAIN cells \ {p} : cells'[q] = cells[q]]_vars

C10_Witness ==
    /\ pc = "tick"
    /\ position # NoPos
    /\ was = "Alive" /\ alive = 4
    /\ cells[position] = "Alive"

\* the other three literal cases of C10
C10_Case_Alive6 ==
    pc = "tick" /\ position # NoPos /\ was = "Alive" /\ alive = 6
        /\ cells[position] = "Dead"

C10_Case_Dead5 ==
    pc = "tick" /\ position # NoPos /\ was = "Dead" /\ alive = 5
        /\ cells[position] = "Alive"

C10_Case_Dead4 ==
    pc = "tick" /\ position # NoPos /\ was = "Dead" /\ alive = 4
        /\ cells[position] = "Dead"

====
